---- MODULE Spec2Model ----
(***************************************************************************)
(* A model of evilgitfs (src/evilgitfs.py): a FUSE filesystem that keeps   *)
(* every file on its own branch of a remote git repository, with a local   *)
(* LRU cache (datadir/), an in-memory directory tree (dir_structure), a    *)
(* manifest (pure/filelist.txt) and a ThreadPoolExecutor that runs the git *)
(* operations.                                                             *)
(*                                                                         *)
(* Paths are sequences of components (what split_path_all returns); the    *)
(* "partial" string the code uses as LRU key is the same sequence joined   *)
(* with "/", so one value serves as both.  File contents are modelled by   *)
(* their length in bytes.  Of git only the outcome on the remote is kept:  *)
(* a push sets the branch to the bytes the worker copied, a delete removes *)
(* the branch; of a scratch clone (dirty_<thread name>) the branch that is *)
(* checked out and the local branches are kept, not its files.  The        *)
(* manifest's synchronisation with the remote's default branch, and a      *)
(* second client of the same remote, are modelled by the manifests alone.  *)
(***************************************************************************)
EXTENDS Integers, Sequences, FiniteSets, TLC

----------------------------------------------------------------------------
(* Bounds of the model *)

\* LRU.maxsize (cache_size * 1e9 bytes), in model units
maxsize == 2
\* largest file a write or truncate produces, in the same units
MaxFileSize == 3
\* number of filesystem callbacks a behaviour issues, per specification
MaxOps == 6
RemountOps == 8
RenameOps == 8
CacheOps == 7
DirOps == 6
OntoOps == 8
EditorOps == 5
ReleaseOps == 6
BootOps == 6
SyncOps == 4
PoolOps == 7
\* ThreadPoolExecutor(max_workers=...)
max_workers == 2
\* number of open() calls that may be in progress at once (FUSE threads)
MaxOpens == 2
\* number of times the filesystem is unmounted and started again
MaxBoots == 1

----------------------------------------------------------------------------
(* Values *)

\* a dict node of dir_structure
DIR == -1
\* Python's None: what getFromDict returns for a missing key, and a leaf
\* that was set to None
NONE == -2
\* an exception raised inside a helper (AttributeError, TypeError, KeyError)
ERR == -3

FileNames == {"a", "b", "c"}
DirNames == {"d", "e"}
\* a vim backup file: create() ignores a path whose last character is '~'
EditorNames == {"t~"}
Names == FileNames \cup DirNames \cup EditorNames

Parent(p) == SubSeq(p, 1, Len(p) - 1)
IsUnder(p, q) == Len(p) > Len(q) /\ SubSeq(p, 1, Len(q)) = q
ProperPrefixes(p) == {SubSeq(p, 1, i) : i \in 1..(Len(p) - 1)}

\* hashlib.sha1(bytes(path, 'utf-8')).hexdigest()[:-1]: the branch name of a
\* path; distinct paths of the model get distinct names
path_hash(p) == <<"sha1">> \o p

\* create() without the test of the last character
EndsWithTilde_dropped(p) == FALSE

\* path[-1] == '~' (create)
EndsWithTilde(p) == p[Len(p)] \in EditorNames

Restrict(f, S) == [x \in S |-> f[x]]

----------------------------------------------------------------------------
(* dir_structure: the nested dict, flattened.  A function from the paths   *)
(* that are keys of the nested dict to DIR (the value is a dict), a size   *)
(* (the value is an int) or NONE (the value is None).                      *)

getFromDict(t, ks) ==
  IF ks = <<>> THEN DIR
  ELSE IF \E pre \in ProperPrefixes(ks) : pre \in DOMAIN t /\ t[pre] >= 0
       THEN ERR                     \* int has no attribute 'get'
  ELSE IF ks \in DOMAIN t THEN t[ks]
  ELSE NONE

\* nested_set can run: keys is not empty and no prefix of it is a leaf
nested_set_ok(t, ks) ==
  /\ ks # <<>>
  /\ \A pre \in ProperPrefixes(ks) : pre \in DOMAIN t => t[pre] = DIR

\* the paths a store at ks replaces: ks and everything below it
Replaced(t, ks) == {q \in DOMAIN t : q = ks \/ IsUnder(q, ks)}

nested_set(t, ks, v) ==
  LET keep == DOMAIN t \ Replaced(t, ks)
      made == ProperPrefixes(ks) \ DOMAIN t
  IN  [q \in keep \cup made \cup {ks} |->
         IF q = ks THEN v ELSE IF q \in made THEN DIR ELSE t[q]]

\* _delfirst can run: the key is there
delfirst_ok(t, ks) == ks # <<>> /\ ks \in DOMAIN t

delfirst(t, ks) == Restrict(t, DOMAIN t \ Replaced(t, ks))

\* _delsecond: the dict at mapList[:-j] is empty
delsecond(t, ks, j) ==
  LET anc == SubSeq(ks, 1, Len(ks) - j)
  IN  ~ \E q \in DOMAIN t : IsUnder(q, anc)

RECURSIVE deleteEmpty(_, _, _)
deleteEmpty(t, ks, j) ==
  IF j > Len(ks) - 1 THEN t
  ELSE IF delsecond(t, ks, j)
       THEN deleteEmpty(delfirst(t, SubSeq(ks, 1, Len(ks) - j)), ks, j + 1)
       ELSE t

deleteFromDict(t, ks, delete_empty_recursive) ==
  LET t1 == delfirst(t, ks)
  IN  IF delete_empty_recursive THEN deleteEmpty(t1, ks, 1) ELSE t1

\* _isfile: TRUE for an int, FALSE for a dict, ERR (ValueError) otherwise
isfile(t, ks) ==
  LET v == getFromDict(t, ks)
  IN  IF v = DIR THEN 0 ELSE IF v >= 0 THEN 1 ELSE ERR

----------------------------------------------------------------------------
(* LRU(OrderedDict): a sequence of [k, v], least recently used first, and  *)
(* the running total filesize_counter.                                     *)

LruKeys(l) == {l[i].k : i \in 1..Len(l)}
LruIndex(l, key) == CHOOSE i \in 1..Len(l) : l[i].k = key
\* dict.get(key, None): OrderedDict.get does not go through __getitem__
LruGet(l, key) == IF key \in LruKeys(l) THEN l[LruIndex(l, key)].v ELSE NONE
LruWithout(l, key) == SelectSeq(l, LAMBDA e : e.k # key)
\* move_to_end(key)
move_to_end(l, key) == Append(LruWithout(l, key), l[LruIndex(l, key)])

\* __delitem__: filesize_counter -= self[key]; super().__delitem__(key)
LruDel(c, key) ==
  [l |-> LruWithout(c.l, key), n |-> c.n - LruGet(c.l, key),
   disk |-> c.disk, err |-> c.err]

\* an eviction loop that drops the entry and leaves the cache file
RECURSIVE LruEvict_keepfile(_)
LruEvict_keepfile(c) ==
  IF c.n > maxsize /\ Len(c.l) # 1
  THEN LruEvict_keepfile(LruDel([c EXCEPT !.n = c.n - c.l[1].v], c.l[1].k))
  ELSE c

\* the eviction loop of __setitem__.  self[oldest] subtracts the size once,
\* del self[oldest] (__delitem__) subtracts it again; os.remove raises when
\* the file is not there.
RECURSIVE LruEvict(_)
LruEvict(c) ==
  IF c.n > maxsize /\ Len(c.l) # 1
  THEN LET oldest == c.l[1].k
           c1 == [c EXCEPT !.n = c.n - c.l[1].v]
           c2 == LruDel(c1, oldest)
       IN  IF oldest \in DOMAIN c2.disk
           THEN LruEvict([c2 EXCEPT !.disk = Restrict(c2.disk, DOMAIN c2.disk \ {oldest})])
           ELSE [c2 EXCEPT !.err = TRUE]
  ELSE c

\* __setitem__
LruSet(c, key, value) ==
  LET l1 == IF key \in LruKeys(c.l)
            THEN [move_to_end(c.l, key) EXCEPT ![Len(c.l)] = [k |-> key, v |-> value]]
            ELSE Append(c.l, [k |-> key, v |-> value])
  IN  LruEvict([c EXCEPT !.l = l1, !.n = c.n + value])

----------------------------------------------------------------------------
(* State *)

VARIABLES
  dir_structure,     \* the directory tree (flattened nested dict)
  lru_file_cache,    \* the LRU's entries, least recently used first
  filesize_counter,  \* LRU.filesize_counter
  datadir,           \* files under datadir/: path -> size in bytes
  datadir_dirs,      \* directories under datadir/
  actions,           \* Passthrough.actions: path -> subset of {"read","write"}
  handles,           \* paths with an open file descriptor
  retrieve_queue,    \* the retrieval-in-progress set
  work_queue,        \* executor._work_queue: tasks not yet taken by a worker
  worker,            \* what each pool thread is executing
  opens,             \* open() calls in progress (one per FUSE thread)
  branches,          \* the remote: branch name -> content of its file
  filelist,          \* pure/filelist.txt: the manifest's records, in order
  ret,               \* what the last finished callback returned
  boots,             \* how often the process was restarted (remounts)
  running,           \* FALSE once main() has died of an uncaught exception
  nops,              \* callbacks the behaviour may still issue
  master,            \* the remote's default branch: the manifest it holds
  pure_base,         \* the manifest of the remote commit pure/ last merged
  sync_alive,        \* the sync_loop thread is running
  peer,              \* a second client of the same remote: its manifest,
                     \* the remote commit it last merged, its sync thread
  scratch            \* the scratch clones: directory -> the branch checked
                     \* out (head) and the local branches (locals)

vars == <<dir_structure, lru_file_cache, filesize_counter, datadir, datadir_dirs,
          actions, handles, retrieve_queue, work_queue, worker, opens,
          branches, filelist, ret, boots, running, nops,
          master, pure_base, sync_alive, peer, scratch>>

\* what only the manifest synchronisation changes
syncvars == <<master, pure_base, sync_alive, peer>>

Workers == 1..max_workers

\* threading.current_thread().name in a pool thread: the executor names its
\* threads <thread_name_prefix>_<n>, n from 0
thread_name(w) == <<"fsworker", w - 1>>

\* a pre_git_ops that names one scratch directory for every thread
pre_git_ops_shared(w) == <<"dirty">>

\* pre_git_ops: the directory 'dirty_' + the thread's name, copied from pure/
\* (which is on master) when it is not there
pre_git_ops(w) == <<"dirty", thread_name(w)>>

DirtyDirs == {pre_git_ops(w) : w \in Workers}

\* the default branch, as a branch name
MasterBranch == <<"master">>
OpenIds == 1..MaxOpens

\* create()'s mode of an editor's hidden file (0100600) and of a regular file
EditorMode == 33152
RegularMode == 33204
Modes == {EditorMode, RegularMode}

Empty == [x \in {} |-> 0]

\* a task of the pool; a field a kind does not use holds <<>>, FALSE or NONE.
\*   data:   the bytes a commit copied into its scratch directory
\*   pre:    the path a rename-branch handed to remove_from_remote_func
\*   waiter: who blocks on the task's future with .result():
\*           <<"open", o>>, <<"worker", w>> or <<>> (nobody)
\*   dirtydir: the scratch directory pre_git_ops gave the function
\*   snap:   the records sed -i wrote to its temporary file, which it then
\*           renames over filelist.txt
Task(kind, path, new, dest, waiter) ==
  [kind |-> kind, path |-> path, new |-> new, dest |-> dest,
   waiter |-> waiter, pc |-> "start", data |-> NONE, pre |-> <<>>,
   dirtydir |-> <<>>, snap |-> <<>>]
IdleTask == [kind |-> "idle", path |-> <<>>, new |-> <<>>, dest |-> FALSE,
             waiter |-> <<>>, pc |-> "idle", data |-> NONE, pre |-> <<>>,
             dirtydir |-> <<>>, snap |-> <<>>]
IdleOpen == [pc |-> "idle", path |-> <<>>]

\* res: "ok" or the error raised; data: the bytes a read returned; entries:
\* the names a readdir yielded
Ret(op, path, res) ==
  [op |-> op, path |-> path, res |-> res, data |-> NONE, entries |-> {}]

Cache == [l |-> lru_file_cache, n |-> filesize_counter, disk |-> datadir, err |-> FALSE]

\* the state when main() has started on an empty repository and an empty
\* base directory
Started ==
  /\ dir_structure = Empty
  /\ lru_file_cache = <<>>
  /\ filesize_counter = 0
  /\ datadir = Empty
  /\ datadir_dirs = {}
  /\ actions = Empty
  /\ handles = {}
  /\ retrieve_queue = {}
  /\ work_queue = <<>>
  /\ worker = [w \in Workers |-> IdleTask]
  /\ opens = [o \in OpenIds |-> IdleOpen]
  /\ branches = Empty
  /\ filelist = <<>>
  /\ ret = Ret("init", <<>>, "ok")
  /\ boots = 0
  /\ running = TRUE
  /\ master = <<>>
  /\ pure_base = <<>>
  /\ sync_alive = TRUE
  /\ peer = [filelist |-> <<>>, base |-> <<>>, alive |-> TRUE]
  /\ scratch = [d \in DirtyDirs |-> [head |-> MasterBranch, locals |-> {MasterBranch}]]

Init == Started /\ nops = MaxOps

----------------------------------------------------------------------------
(* What the kernel sees: getattr decides which callbacks it will issue *)

\* os.path.exists(full_path)
OnDisk(p) == p \in DOMAIN datadir \/ p \in datadir_dirs

\* getattr: "file", "dir", or "none" (ENOENT or an exception)
getattr(p) ==
  IF p = <<>> THEN "dir"
  ELSE IF LruGet(lru_file_cache, p) # NONE
       THEN (IF p \in DOMAIN datadir THEN "file"
             ELSE IF p \in datadir_dirs THEN "dir" ELSE "none")
  ELSE IF getFromDict(dir_structure, p) \notin {NONE, ERR}
       THEN (IF p \in DOMAIN datadir THEN "file"
             ELSE IF p \in datadir_dirs THEN "dir"
             ELSE IF getFromDict(dir_structure, p) = DIR THEN "dir" ELSE "file")
  ELSE "none"

\* the parent directory exists under datadir/ (os.open, os.mkdir, os.rename)
ParentOnDisk(p) == Len(p) = 1 \/ Parent(p) \in datadir_dirs

\* the pop/add of self.actions (a defaultdict of sets)
AddAction(p, a) ==
  IF p \in DOMAIN actions THEN [actions EXCEPT ![p] = @ \cup {a}]
  ELSE [q \in DOMAIN actions \cup {p} |-> IF q = p THEN {a} ELSE actions[q]]
PopAction(p) == Restrict(actions, DOMAIN actions \ {p})
ActionsOf(p) == IF p \in DOMAIN actions THEN actions[p] ELSE {}

\* writing a file of a given size at p
PutFile(disk, p, size) ==
  [q \in DOMAIN disk \cup {p} |-> IF q = p THEN size ELSE disk[q]]
DelFile(disk, p) == Restrict(disk, DOMAIN disk \ {p})

\* _add_file_to_fs that never stats the file: the size is always 0
add_file_to_fs_nostat(t, c, p, create) ==
  IF ~nested_set_ok(t, p)
  THEN [t |-> t, c |-> [c EXCEPT !.err = TRUE]]
  ELSE [t |-> nested_set(t, p, 0), c |-> LruSet(c, p, 0)]

\* _add_file_to_fs: lstat (unless create), nested_set, LRU __setitem__.
\* The result holds the tree, the cache and whether an exception was raised;
\* a statement after the raising one has not run.
add_file_to_fs(t, c, p, create) ==
  IF ~create /\ p \notin DOMAIN c.disk
  THEN [t |-> t, c |-> [c EXCEPT !.err = TRUE]]
  ELSE LET size == IF create THEN 0 ELSE c.disk[p]
       IN  IF ~nested_set_ok(t, p)
           THEN [t |-> t, c |-> [c EXCEPT !.err = TRUE]]
           ELSE [t |-> nested_set(t, p, size), c |-> LruSet(c, p, size)]

\* a callback can be issued: the process runs and the budget is not used up
Callable == running /\ nops > 0

SetCache(c) ==
  /\ lru_file_cache' = c.l
  /\ filesize_counter' = c.n
  /\ datadir' = c.disk

\* executor.submit(...).result() in every caller: the caller waits for the task
Submit_result(q, task) == Append(q, [task EXCEPT !.waiter = <<"caller">>])

\* executor.submit(...)
Submit(q, task) == Append(q, task)

----------------------------------------------------------------------------
(* Filesystem callbacks.  Each action is one callback, run to its return   *)
(* or to the exception that ends it; open(), which blocks on the pool, is  *)
(* split at its blocking points.                                           *)

\* create(path, mode)
Create(p, mode) ==
  /\ Callable
  /\ getattr(Parent(p)) = "dir" /\ getattr(p) = "none"
  /\ nops' = nops - 1
  /\ IF mode = EditorMode \/ EndsWithTilde(p)
     THEN /\ IF ParentOnDisk(p) /\ p \notin datadir_dirs
             THEN /\ datadir' = IF p \in DOMAIN datadir THEN datadir ELSE PutFile(datadir, p, 0)
                  /\ handles' = handles \cup {p}
                  /\ ret' = Ret("create", p, "ok")
             ELSE /\ UNCHANGED <<datadir, handles>>
                  /\ ret' = Ret("create", p, "OSError")
          /\ UNCHANGED <<dir_structure, lru_file_cache, filesize_counter, actions>>
     ELSE LET r == add_file_to_fs(dir_structure, Cache, p, TRUE)
              opened == ~r.c.err /\ ParentOnDisk(p) /\ p \notin datadir_dirs
          IN  /\ actions' = AddAction(p, "write")
              /\ dir_structure' = r.t
              /\ lru_file_cache' = r.c.l
              /\ filesize_counter' = r.c.n
              /\ datadir' = IF opened /\ p \notin DOMAIN r.c.disk
                            THEN PutFile(r.c.disk, p, 0) ELSE r.c.disk
              /\ handles' = IF opened THEN handles \cup {p} ELSE handles
              /\ ret' = Ret("create", p, IF opened THEN "ok" ELSE "OSError")
  /\ UNCHANGED <<datadir_dirs, retrieve_queue, work_queue, worker, opens,
                 branches, filelist, boots, running>>
  /\ UNCHANGED syncvars
  /\ UNCHANGED scratch

\* write(path, buf, offset, fh): the file grows to (or keeps) size bytes
Write(p, size) ==
  /\ Callable
  /\ p \in handles /\ p \in DOMAIN datadir
  /\ size >= datadir[p]
  /\ nops' = nops - 1
  /\ actions' = AddAction(p, "write")
  /\ datadir' = PutFile(datadir, p, size)
  /\ ret' = Ret("write", p, "ok")
  /\ UNCHANGED <<dir_structure, lru_file_cache, filesize_counter, datadir_dirs,
                 handles, retrieve_queue, work_queue, worker, opens, branches,
                 filelist, boots, running>>
  /\ UNCHANGED syncvars
  /\ UNCHANGED scratch

\* read(path, length, offset, fh)
Read(p) ==
  /\ Callable
  /\ p \in handles /\ p \in DOMAIN datadir
  /\ nops' = nops - 1
  /\ actions' = AddAction(p, "read")
  /\ ret' = [Ret("read", p, "ok") EXCEPT !.data = datadir[p]]
  /\ UNCHANGED <<dir_structure, lru_file_cache, filesize_counter, datadir,
                 datadir_dirs, handles, retrieve_queue, work_queue, worker,
                 opens, branches, filelist, boots, running>>
  /\ UNCHANGED syncvars
  /\ UNCHANGED scratch

\* truncate(path, length)
Truncate(p, length) ==
  /\ Callable
  /\ getattr(p) = "file"
  /\ nops' = nops - 1
  /\ IF p \in DOMAIN datadir
     THEN datadir' = PutFile(datadir, p, length) /\ ret' = Ret("truncate", p, "ok")
     ELSE UNCHANGED datadir /\ ret' = Ret("truncate", p, "FileNotFoundError")
  /\ UNCHANGED <<dir_structure, lru_file_cache, filesize_counter, datadir_dirs,
                 actions, handles, retrieve_queue, work_queue, worker, opens,
                 branches, filelist, boots, running>>
  /\ UNCHANGED syncvars
  /\ UNCHANGED scratch

\* release(path, fh)
Release(p) ==
  /\ Callable
  /\ p \in handles
  /\ nops' = nops - 1
  /\ actions' = PopAction(p)
  /\ handles' = handles \ {p}
  /\ IF "write" \in ActionsOf(p)
     THEN LET r == add_file_to_fs(dir_structure, Cache, p, FALSE)
          IN  /\ dir_structure' = r.t
              /\ SetCache(r.c)
              /\ IF r.c.err
                 THEN UNCHANGED work_queue /\ ret' = Ret("release", p, "OSError")
                 ELSE /\ work_queue' = Submit(work_queue, Task("commit", p, <<>>, FALSE, <<>>))
                      /\ ret' = Ret("release", p, "ok")
     ELSE /\ UNCHANGED <<dir_structure, lru_file_cache, filesize_counter, datadir, work_queue>>
          /\ ret' = Ret("release", p, "ok")
  /\ UNCHANGED <<datadir_dirs, retrieve_queue, worker, opens, branches, filelist,
                 boots, running>>
  /\ UNCHANGED syncvars
  /\ UNCHANGED scratch

\* unlink(path)
Unlink(p) ==
  /\ Callable
  /\ getattr(p) = "file" \/ p \in DOMAIN datadir
  /\ p \notin handles
  /\ nops' = nops - 1
  /\ IF LruGet(lru_file_cache, p) # NONE
     THEN LET c == LruDel(Cache, p)
              intree == delfirst_ok(dir_structure, p)
          IN  /\ lru_file_cache' = c.l
              /\ filesize_counter' = c.n
              /\ IF intree
                 THEN /\ dir_structure' = deleteFromDict(dir_structure, p, FALSE)
                      /\ work_queue' = Submit(work_queue, Task("remove", p, <<>>, FALSE, <<>>))
                      /\ datadir' = DelFile(datadir, p)
                      /\ ret' = Ret("unlink", p, IF p \in DOMAIN datadir THEN "ok" ELSE "FileNotFoundError")
                 ELSE /\ UNCHANGED <<dir_structure, work_queue, datadir>>
                      /\ ret' = Ret("unlink", p, "KeyError")
     ELSE IF getFromDict(dir_structure, p) = ERR
     THEN /\ UNCHANGED <<dir_structure, lru_file_cache, filesize_counter, datadir, work_queue>>
          /\ ret' = Ret("unlink", p, "AttributeError")
     ELSE IF getFromDict(dir_structure, p) # NONE
     THEN /\ dir_structure' = deleteFromDict(dir_structure, p, FALSE)
          /\ work_queue' = Submit(work_queue, Task("remove", p, <<>>, FALSE, <<>>))
          /\ ret' = Ret("unlink", p, "ok")
          /\ UNCHANGED <<lru_file_cache, filesize_counter, datadir>>
     ELSE /\ datadir' = DelFile(datadir, p)
          /\ ret' = Ret("unlink", p, IF p \in DOMAIN datadir THEN "ok" ELSE "FileNotFoundError")
          /\ UNCHANGED <<dir_structure, lru_file_cache, filesize_counter, work_queue>>
  /\ UNCHANGED <<datadir_dirs, actions, handles, retrieve_queue, worker, opens,
                 branches, filelist, boots, running>>
  /\ UNCHANGED syncvars
  /\ UNCHANGED scratch

\* mkdir(path, mode)
Mkdir(p) ==
  /\ Callable
  /\ getattr(Parent(p)) = "dir" /\ getattr(p) = "none"
  /\ nops' = nops - 1
  /\ IF ~OnDisk(p) /\ ~ParentOnDisk(p)
     THEN /\ UNCHANGED <<datadir_dirs, dir_structure>>
          /\ ret' = Ret("mkdir", p, "FileNotFoundError")
     ELSE /\ datadir_dirs' = IF OnDisk(p) THEN datadir_dirs ELSE datadir_dirs \cup {p}
          /\ IF nested_set_ok(dir_structure, p)
             THEN dir_structure' = nested_set(dir_structure, p, DIR) /\ ret' = Ret("mkdir", p, "ok")
             ELSE UNCHANGED dir_structure /\ ret' = Ret("mkdir", p, "TypeError")
  /\ UNCHANGED <<lru_file_cache, filesize_counter, datadir, actions, handles,
                 retrieve_queue, work_queue, worker, opens, branches, filelist,
                 boots, running>>
  /\ UNCHANGED syncvars
  /\ UNCHANGED scratch

\* os.rmdir(full_path) succeeds: a directory with nothing in it
DiskDirEmpty(p) ==
  /\ p \in datadir_dirs
  /\ ~ \E q \in DOMAIN datadir \cup datadir_dirs : IsUnder(q, p)

\* rmdir(path)
Rmdir(p) ==
  /\ Callable
  /\ getattr(p) = "dir" /\ p # <<>>
  /\ nops' = nops - 1
  /\ IF delfirst_ok(dir_structure, p)
     THEN /\ dir_structure' = deleteFromDict(dir_structure, p, FALSE)
          /\ IF DiskDirEmpty(p)
             THEN datadir_dirs' = datadir_dirs \ {p} /\ ret' = Ret("rmdir", p, "ok")
             ELSE UNCHANGED datadir_dirs /\ ret' = Ret("rmdir", p, "OSError")
     ELSE /\ UNCHANGED <<dir_structure, datadir_dirs>>
          /\ ret' = Ret("rmdir", p, "KeyError")
  /\ UNCHANGED <<lru_file_cache, filesize_counter, datadir, actions, handles,
                 retrieve_queue, work_queue, worker, opens, branches, filelist,
                 boots, running>>
  /\ UNCHANGED syncvars
  /\ UNCHANGED scratch

\* getattr(path) as a callback: a key of the LRU is found with
\* lru_file_cache.get(partial, None), which does not go through
\* LRU.__getitem__ and so leaves the order of the entries as it is; then
\* os.lstat of the cache file.  A path only the tree holds gets the
\* attributes of its file or directory, or made-up ones (a mirage).
Getattr(p) ==
  /\ Callable
  /\ nops' = nops - 1
  /\ ret' = Ret("getattr", p,
               IF LruGet(lru_file_cache, p) # NONE
               THEN (IF OnDisk(p) THEN "ok" ELSE "FileNotFoundError")
               ELSE IF getFromDict(dir_structure, p) = ERR THEN "AttributeError"
               ELSE IF getFromDict(dir_structure, p) # NONE THEN "ok"
               ELSE "ENOENT")
  /\ UNCHANGED <<dir_structure, lru_file_cache, filesize_counter, datadir,
                 datadir_dirs, actions, handles, retrieve_queue, work_queue,
                 worker, opens, branches, filelist, boots, running>>
  /\ UNCHANGED syncvars
  /\ UNCHANGED scratch

\* dir_listing.keys(): the names of the node's immediate children
Keys(t, p) == {q[Len(q)] : q \in {x \in DOMAIN t : Parent(x) = p}}

\* readdir(path, fh): what it raises, or the set of names it yields.  Only a
\* missing node (getFromDict returns None) is ENOENT; a node that is not a
\* dict adds nothing to '.' and '..'.
readdir(t, p) ==
  LET dir_listing == getFromDict(t, p)
  IN  IF dir_listing = ERR THEN [res |-> "AttributeError", entries |-> {}]
      ELSE IF dir_listing = NONE THEN [res |-> "ENOENT", entries |-> {}]
      ELSE [res |-> "ok",
            entries |-> {".", ".."} \cup (IF dir_listing = DIR THEN Keys(t, p) ELSE {})]

\* readdir as a callback: the kernel lists what getattr told it is a directory
Readdir(p) ==
  /\ Callable
  /\ getattr(p) = "dir"
  /\ nops' = nops - 1
  /\ ret' = [Ret("readdir", p, readdir(dir_structure, p).res)
               EXCEPT !.entries = readdir(dir_structure, p).entries]
  /\ UNCHANGED <<dir_structure, lru_file_cache, filesize_counter, datadir,
                 datadir_dirs, actions, handles, retrieve_queue, work_queue,
                 worker, opens, branches, filelist, boots, running>>
  /\ UNCHANGED syncvars
  /\ UNCHANGED scratch

----------------------------------------------------------------------------
(* rename(old, new) *)

MoveUnder(q, old, new) == new \o SubSeq(q, Len(old) + 1, Len(q))

\* os.rename(full_path(old), full_path(new)) succeeds
os_rename_ok(old, new) ==
  /\ OnDisk(old)
  /\ ParentOnDisk(new)
  /\ old \in DOMAIN datadir => new \notin datadir_dirs
  /\ old \in datadir_dirs => new \notin DOMAIN datadir /\ (new \in datadir_dirs => DiskDirEmpty(new))

\* the files under datadir/ after os.rename
os_rename_files(old, new) ==
  LET moved == {q \in DOMAIN datadir : q = old \/ IsUnder(q, old)}
      kept == (DOMAIN datadir \ moved) \ {new}
      into == {MoveUnder(q, old, new) : q \in moved}
  IN  [q \in kept \cup into |->
         IF q \in into
         THEN datadir[CHOOSE m \in moved : MoveUnder(m, old, new) = q]
         ELSE datadir[q]]

\* the directories under datadir/ after os.rename
os_rename_dirs(old, new) ==
  LET moved == {q \in datadir_dirs : q = old \/ IsUnder(q, old)}
  IN  (datadir_dirs \ moved) \cup {MoveUnder(q, old, new) : q \in moved}

\* the body of rename()'s loop for one file the walk found: move the tree
\* leaf, move the LRU entry, dispatch a rename-branch.  po is the file's old
\* path, pn its new path (the LRU key and the path whose hash names the
\* branch) and tn the key list its leaf is stored under (all_paths_new or
\* all_paths_new_internal).  st holds the tree, the cache, the pool's queue,
\* the variable all_paths_new and the exception raised so far ("" for none).
RenameOne(st, po, pn, tn, dest) ==
  LET v == getFromDict(st.t, po)
  IN  IF v = ERR THEN [st EXCEPT !.err = "AttributeError"]
      ELSE IF ~nested_set_ok(st.t, tn) THEN [st EXCEPT !.err = "TypeError"]
      ELSE LET t1 == nested_set(st.t, tn, v)
           IN  IF ~delfirst_ok(t1, po) THEN [st EXCEPT !.t = t1, !.err = "KeyError"]
               ELSE LET t2 == deleteFromDict(t1, po, ~dest.single)
                        c1 == IF LruGet(st.c.l, po) # NONE
                              THEN LruSet(st.c, pn, LruGet(st.c.l, po))
                              ELSE st.c
                        c2 == IF LruGet(st.c.l, po) # NONE /\ ~c1.err
                              THEN LruDel(c1, po) ELSE c1
                    IN  IF c1.err THEN [st EXCEPT !.t = t2, !.c = c1, !.err = "FileNotFoundError"]
                        ELSE [st EXCEPT !.t = t2, !.c = c2,
                                        !.q = Submit(st.q, Task("rename", po, pn, dest.exists, <<>>))]

\* "if files:" the files of one directory of the walk, in the order os.walk
\* lists them; order holds their new paths
RECURSIVE RenameFiles(_, _, _, _)
RenameFiles(st, old, new, order) ==
  IF order = <<>> \/ st.err # "" THEN st
  ELSE LET rel == SubSeq(Head(order), Len(new) + 1, Len(Head(order)))
       IN  RenameFiles(RenameOne(st, old \o rel, Head(order), st.apn \o rel,
                                 [single |-> FALSE, exists |-> FALSE]),
                       old, new, Tail(order))

\* nested_set(dir_structure, ks, getFromDict(dir_structure, src)) for a node
\* that is a dict: the node at src, with all that is below it, is stored at ks
Graft(t, src, ks) ==
  LET sub == {q \in DOMAIN t : q = src \/ IsUnder(q, src)}
      keep == DOMAIN t \ Replaced(t, ks)
      made == ProperPrefixes(ks) \ DOMAIN t
      into == {MoveUnder(q, src, ks) : q \in sub}
  IN  [q \in keep \cup made \cup into |->
         IF q \in into THEN t[CHOOSE m \in sub : MoveUnder(m, src, ks) = q]
         ELSE IF q \in made THEN DIR ELSE t[q]]

\* "else:" a directory of the walk that holds no file; rel is its path below
\* the renamed directory (all_paths).  all_paths_new is assigned all_paths;
\* the node at old + rel, when the tree has one, is stored under all_paths_new
\* and deleted at old + rel.  nested_set with an empty key list is an
\* IndexError.
RenameEmpty(st, old, rel) ==
  LET aoi == old \o rel
      v == getFromDict(st.t, aoi)
      st1 == [st EXCEPT !.apn = rel]
  IN  IF v = ERR THEN [st1 EXCEPT !.err = "AttributeError"]
      ELSE IF v = NONE THEN st1
      ELSE IF rel = <<>> THEN [st1 EXCEPT !.err = "IndexError"]
      ELSE IF ~nested_set_ok(st.t, rel) THEN [st1 EXCEPT !.err = "TypeError"]
      ELSE LET t1 == Graft(st.t, aoi, rel)
           IN  IF ~delfirst_ok(t1, aoi) THEN [st1 EXCEPT !.t = t1, !.err = "KeyError"]
               ELSE [st1 EXCEPT !.t = deleteFromDict(t1, aoi, FALSE)]

Orders(S) == {o \in [1..Cardinality(S) -> S] : \A i, j \in 1..Cardinality(S) : i # j => o[i] # o[j]}

\* the orders in which os.walk(top) visits the directories dirs: top first,
\* and each directory followed at once by everything below it
WalkDirOrders(dirs) ==
  {o \in Orders(dirs) :
     \A i \in 1..Len(o) :
       LET below == {j \in 1..Len(o) : IsUnder(o[j], o[i])}
       IN  below = (i + 1)..(i + Cardinality(below))}

\* the loop over os.walk(full_path(new)): dorder lists the directories, forder
\* the files, in the order the walk meets them
RECURSIVE RenameWalk(_, _, _, _, _)
RenameWalk(st, old, new, dorder, forder) ==
  IF dorder = <<>> \/ st.err # "" THEN st
  ELSE LET here == SelectSeq(forder, LAMBDA f : Parent(f) = Head(dorder) /\ f \in DOMAIN st.c.disk)
           rel == SubSeq(Head(dorder), Len(new) + 1, Len(Head(dorder)))
           st1 == IF here # <<>> THEN RenameFiles(st, old, new, here)
                  ELSE RenameEmpty(st, old, rel)
       IN  RenameWalk(st1, old, new, Tail(dorder), forder)

Rename(old, new) ==
  /\ Callable
  /\ old # new /\ ~IsUnder(new, old) /\ ~IsUnder(old, new)
  /\ getattr(old) # "none" /\ getattr(Parent(new)) = "dir"
  /\ getattr(new) \in {"none", getattr(old)}
  /\ getattr(old) = "dir" => Len(old) = Len(new)
  /\ new \notin handles
  /\ nops' = nops - 1
  /\ LET f_old == isfile(dir_structure, old)
         f_new == isfile(dir_structure, new)
         st0 == [t |-> dir_structure, c |-> [Cache EXCEPT !.disk = os_rename_files(old, new)],
                 q |-> work_queue, apn |-> new, err |-> ""]
         Finish(st) ==
           /\ dir_structure' = st.t
           /\ SetCache(st.c)
           /\ work_queue' = st.q
           /\ datadir_dirs' = os_rename_dirs(old, new)
           /\ handles' = IF st.err = "" /\ old \in handles
                         THEN (handles \ {old}) \cup {new} ELSE handles
           /\ ret' = Ret("rename", old, IF st.err = "" THEN "ok" ELSE st.err)
     IN  IF f_old = ERR \/ (f_old = 1 /\ f_new = ERR)
         THEN /\ ret' = Ret("rename", old, "ValueError")
              /\ UNCHANGED <<dir_structure, lru_file_cache, filesize_counter, datadir,
                             datadir_dirs, handles, work_queue>>
         ELSE IF ~os_rename_ok(old, new)
         THEN /\ ret' = Ret("rename", old, "OSError")
              /\ UNCHANGED <<dir_structure, lru_file_cache, filesize_counter, datadir,
                             datadir_dirs, handles, work_queue>>
         ELSE IF f_old = 1
         THEN Finish(RenameOne(st0, old, new, new, [single |-> TRUE, exists |-> f_new = 1]))
         ELSE LET files == {f \in DOMAIN st0.c.disk : IsUnder(f, new)}
                  dirs == {d \in os_rename_dirs(old, new) : d = new \/ IsUnder(d, new)}
              IN  \E dorder \in WalkDirOrders(dirs), forder \in Orders(files) :
                    Finish(RenameWalk(st0, old, new, dorder, forder))
  /\ UNCHANGED <<actions, retrieve_queue, worker, opens, branches, filelist,
                 boots, running>>
  /\ UNCHANGED syncvars
  /\ UNCHANGED scratch

----------------------------------------------------------------------------
(* open(path, flags): blocks while it polls retrieve_queue and while it    *)
(* awaits the retrieval's future, so other callbacks and the pool run in   *)
(* between.                                                                *)

SetOpen(o, pc, p) == opens' = [opens EXCEPT ![o] = [pc |-> pc, path |-> p]]

\* the entry of open(): "if path in retrieve_queue"
OpenStart(o, p) ==
  /\ Callable
  /\ opens[o].pc = "idle"
  /\ getattr(p) = "file"
  /\ nops' = nops - 1
  /\ SetOpen(o, IF p \in retrieve_queue THEN "wait" ELSE "lookup", p)
  /\ UNCHANGED <<dir_structure, lru_file_cache, filesize_counter, datadir,
                 datadir_dirs, actions, handles, retrieve_queue, work_queue,
                 worker, branches, filelist, ret, boots, running>>
  /\ UNCHANGED syncvars
  /\ UNCHANGED scratch

\* the wait loop ends: a poll found the path gone from retrieve_queue
\* (break), or the hundredth poll still found it; open() goes on either way
OpenWait(o) ==
  /\ running
  /\ opens[o].pc = "wait"
  /\ SetOpen(o, "lookup", opens[o].path)
  /\ UNCHANGED <<dir_structure, lru_file_cache, filesize_counter, datadir,
                 datadir_dirs, actions, handles, retrieve_queue, work_queue,
                 worker, branches, filelist, ret, boots, running, nops>>
  /\ UNCHANGED syncvars
  /\ UNCHANGED scratch

\* os.open(full_path, flags) at the end of open()
os_open(o, p, disk) ==
  /\ SetOpen(o, "idle", <<>>)
  /\ IF p \in DOMAIN disk
     THEN handles' = handles \cup {p} /\ ret' = Ret("open", p, "ok")
     ELSE UNCHANGED handles /\ ret' = Ret("open", p, "ENOENT")

\* the cache lookup; on a miss of a tracked path: retrieve_queue.add and
\* retrieve_from_remote up to its executor.submit(...).result()
OpenLookup(o) ==
  /\ running
  /\ opens[o].pc = "lookup"
  /\ LET p == opens[o].path
     IN  IF LruGet(lru_file_cache, p) = NONE /\ getFromDict(dir_structure, p) = ERR
         THEN /\ SetOpen(o, "idle", <<>>)
              /\ ret' = Ret("open", p, "AttributeError")
              /\ UNCHANGED <<retrieve_queue, datadir, datadir_dirs, work_queue, handles>>
         ELSE IF LruGet(lru_file_cache, p) = NONE /\ getFromDict(dir_structure, p) # NONE
         THEN /\ retrieve_queue' = retrieve_queue \cup {p}
              /\ datadir_dirs' = datadir_dirs \cup ProperPrefixes(p)
              /\ IF p \in datadir_dirs
                 THEN /\ SetOpen(o, "idle", <<>>)
                      /\ ret' = Ret("open", p, "IsADirectoryError")
                      /\ UNCHANGED <<datadir, work_queue>>
                 ELSE /\ datadir' = IF p \in DOMAIN datadir THEN datadir ELSE PutFile(datadir, p, 0)
                      /\ work_queue' = Submit(work_queue, Task("retrieve", p, <<>>, FALSE, <<"open", o>>))
                      /\ SetOpen(o, "result", p)
                      /\ UNCHANGED ret
              /\ UNCHANGED handles
         ELSE /\ os_open(o, p, datadir)
              /\ UNCHANGED <<retrieve_queue, datadir, datadir_dirs, work_queue>>
  /\ UNCHANGED <<dir_structure, lru_file_cache, filesize_counter, actions,
                 worker, branches, filelist, boots, running, nops>>
  /\ UNCHANGED syncvars
  /\ UNCHANGED scratch

\* .result() returns or raises what the retrieval raised
OpenResult(o) ==
  /\ running
  /\ opens[o].pc \in {"returned", "raised"}
  /\ LET p == opens[o].path
     IN  IF opens[o].pc = "raised"
         THEN /\ SetOpen(o, "idle", <<>>)
              /\ ret' = Ret("open", p, "NameError")
              /\ UNCHANGED <<dir_structure, lru_file_cache, filesize_counter, datadir,
                             retrieve_queue, handles>>
         ELSE LET r == add_file_to_fs(dir_structure, Cache, p, FALSE)
              IN  /\ dir_structure' = r.t
                  /\ SetCache(r.c)
                  /\ IF r.c.err \/ p \notin retrieve_queue
                     THEN /\ SetOpen(o, "idle", <<>>)
                          /\ ret' = Ret("open", p, IF r.c.err THEN "OSError" ELSE "KeyError")
                          /\ UNCHANGED <<retrieve_queue, handles>>
                     ELSE /\ retrieve_queue' = retrieve_queue \ {p}
                          /\ os_open(o, p, r.c.disk)
  /\ UNCHANGED <<datadir_dirs, actions, work_queue, worker, branches, filelist,
                 boots, running, nops>>
  /\ UNCHANGED syncvars
  /\ UNCHANGED scratch

----------------------------------------------------------------------------
(* The pool: executor = ThreadPoolExecutor(max_workers).  A thread takes   *)
(* the oldest queued task and runs the git function step by step.          *)

SetWorker(w, t) == worker' = [worker EXCEPT ![w] = t]

Dequeue(w) ==
  /\ worker[w].kind = "idle"
  /\ work_queue # <<>>
  /\ SetWorker(w, Head(work_queue))
  /\ work_queue' = Tail(work_queue)
  /\ UNCHANGED <<dir_structure, lru_file_cache, filesize_counter, datadir,
                 datadir_dirs, actions, handles, retrieve_queue, opens, branches,
                 filelist, ret, boots, running, nops>>
  /\ UNCHANGED syncvars
  /\ UNCHANGED scratch

At(w, kind, pc) == worker[w].kind = kind /\ worker[w].pc = pc

\* git checkout -b <branch>: refused when the clone has the branch already
checkout_b(sc, b) ==
  IF b \in sc.locals THEN sc
  ELSE [head |-> b, locals |-> sc.locals \cup {b}]

\* git_commit_to_remote: pre_git_ops, pull, checkout -b,
\* shutil.copy(full_path, dirty_filepath), which raises when the cache file
\* is not there
CommitCopy(w) ==
  /\ At(w, "commit", "start")
  /\ scratch' = [scratch EXCEPT ![pre_git_ops(w)] = checkout_b(@, path_hash(worker[w].path))]
  /\ IF worker[w].path \in DOMAIN datadir
     THEN SetWorker(w, [worker[w] EXCEPT !.pc = "push", !.data = datadir[worker[w].path],
                                          !.dirtydir = pre_git_ops(w)])
     ELSE SetWorker(w, IdleTask)
  /\ UNCHANGED <<dir_structure, lru_file_cache, filesize_counter, datadir,
                 datadir_dirs, actions, handles, retrieve_queue, work_queue, opens,
                 branches, filelist, ret, boots, running, nops>>
  /\ UNCHANGED syncvars

SetBranch(b, content) ==
  [x \in DOMAIN branches \cup {b} |-> IF x = b THEN content ELSE branches[x]]

\* git add && git commit && git push -u origin <path_hash>
CommitPush(w) ==
  /\ At(w, "commit", "push")
  /\ branches' = SetBranch(path_hash(worker[w].path), worker[w].data)
  /\ SetWorker(w, [worker[w] EXCEPT !.pc = "append"])
  /\ UNCHANGED <<dir_structure, lru_file_cache, filesize_counter, datadir,
                 datadir_dirs, actions, handles, retrieve_queue, work_queue, opens,
                 filelist, ret, boots, running, nops>>
  /\ UNCHANGED syncvars
  /\ UNCHANGED scratch

Record(p, size) == [path |-> p, branch |-> path_hash(p), size |-> size]

\* csvwriter.writerow([path, path_hash, os.stat(full_path).st_size]), where
\* os.stat raises when the cache file is not there; then git checkout master
\* and post_git_ops
CommitAppend(w) ==
  /\ At(w, "commit", "append")
  /\ IF worker[w].path \in DOMAIN datadir
     THEN /\ filelist' = Append(filelist, Record(worker[w].path, datadir[worker[w].path]))
          /\ scratch' = [scratch EXCEPT ![worker[w].dirtydir].head = MasterBranch]
     ELSE UNCHANGED <<filelist, scratch>>
  /\ SetWorker(w, IdleTask)
  /\ UNCHANGED <<dir_structure, lru_file_cache, filesize_counter, datadir,
                 datadir_dirs, actions, handles, retrieve_queue, work_queue, opens,
                 branches, ret, boots, running, nops>>
  /\ UNCHANGED syncvars

\* git_remove_from_remote: git push origin --delete <path_hash>
RemovePush(w) ==
  /\ At(w, "remove", "start")
  /\ branches' = Restrict(branches, DOMAIN branches \ {path_hash(worker[w].path)})
  /\ SetWorker(w, [worker[w] EXCEPT !.pc = "sed", !.dirtydir = pre_git_ops(w)])
  /\ UNCHANGED <<dir_structure, lru_file_cache, filesize_counter, datadir,
                 datadir_dirs, actions, handles, retrieve_queue, work_queue, opens,
                 filelist, ret, boots, running, nops>>
  /\ UNCHANGED syncvars
  /\ UNCHANGED scratch

\* post_git_ops raises: with fewer than max_workers tasks queued it evaluates
\* Path(dirtydir).glob('/.git/objects/**/*'), and pathlib refuses a pattern
\* that is not relative (NotImplementedError).  It is the last call of every
\* git function, so the function's work is done and only its future fails.
post_git_ops_raises == Len(work_queue) < max_workers

\* sed -i '/<path_hash>/d' filelist.txt, first half: sed reads filelist.txt
\* to its end and writes the lines it keeps to a temporary file beside it.
\* Nothing in the program locks the manifest, so another thread's edit can
\* come between this and the second half.
RemoveSedRead(w) ==
  /\ At(w, "remove", "sed")
  /\ SetWorker(w, [worker[w] EXCEPT
                     !.pc = "sedmv",
                     !.snap = SelectSeq(filelist,
                                        LAMBDA r : r.branch # path_hash(worker[w].path))])
  /\ UNCHANGED <<dir_structure, lru_file_cache, filesize_counter, datadir,
                 datadir_dirs, actions, handles, retrieve_queue, work_queue, opens,
                 branches, filelist, ret, boots, running, nops>>
  /\ UNCHANGED syncvars
  /\ UNCHANGED scratch

\* sed -i, second half: the temporary file is renamed over filelist.txt;
\* then post_git_ops; the future completes.  A git_rename_branch blocked in
\* remove_from_remote(..., block=True) goes on to its push when the future
\* returned, and ends with the future's exception when it raised.
RemoveSed(w) ==
  /\ At(w, "remove", "sedmv")
  /\ filelist' = worker[w].snap
  /\ worker' = [x \in Workers |->
                  IF x = w THEN IdleTask
                  ELSE IF worker[w].waiter = <<"worker", x>>
                       THEN (IF post_git_ops_raises THEN IdleTask
                             ELSE [worker[x] EXCEPT !.pc = "push"])
                       ELSE worker[x]]
  /\ UNCHANGED <<dir_structure, lru_file_cache, filesize_counter, datadir,
                 datadir_dirs, actions, handles, retrieve_queue, work_queue, opens,
                 branches, ret, boots, running, nops>>
  /\ UNCHANGED syncvars
  /\ UNCHANGED scratch

\* git_rename_branch up to the push: with destination_file_exists it submits
\* remove_from_remote_func(path_old, block=True) and waits for it
RenameStart(w) ==
  /\ At(w, "rename", "start")
  /\ IF worker[w].dest
     THEN /\ work_queue' = Submit(work_queue,
                                  Task("remove", worker[w].path, <<>>, FALSE, <<"worker", w>>))
          /\ SetWorker(w, [worker[w] EXCEPT !.pc = "wait", !.pre = worker[w].path,
                                               !.dirtydir = pre_git_ops(w)])
     ELSE /\ UNCHANGED work_queue
          /\ SetWorker(w, [worker[w] EXCEPT !.pc = "push", !.dirtydir = pre_git_ops(w)])
  /\ UNCHANGED <<dir_structure, lru_file_cache, filesize_counter, datadir,
                 datadir_dirs, actions, handles, retrieve_queue, opens, branches,
                 filelist, ret, boots, running, nops>>
  /\ UNCHANGED syncvars
  /\ UNCHANGED scratch

\* git fetch origin <old>; git push origin origin/<old>:refs/heads/<new> :<old>
RenamePush(w) ==
  /\ At(w, "rename", "push")
  /\ LET old == path_hash(worker[w].path)
         new == path_hash(worker[w].new)
     IN  branches' =
           IF old \in DOMAIN branches
           THEN [b \in (DOMAIN branches \ {old}) \cup {new} |->
                   IF b = new /\ new \notin DOMAIN branches THEN branches[old]
                   ELSE branches[b]]
           ELSE branches
  /\ SetWorker(w, [worker[w] EXCEPT !.pc = "sed"])
  /\ UNCHANGED <<dir_structure, lru_file_cache, filesize_counter, datadir,
                 datadir_dirs, actions, handles, retrieve_queue, work_queue, opens,
                 filelist, ret, boots, running, nops>>
  /\ UNCHANGED syncvars
  /\ UNCHANGED scratch

\* sed -i -e '/<path_hash_old>/{w /dev/stdout' -e 'd}', first half: sed reads
\* filelist.txt to its end, prints the old record and writes the other lines
\* to its temporary file; the size is the last token of what it printed (''
\* when it printed nothing: NONE), kept in the task's data
RenameSedRead(w) ==
  /\ At(w, "rename", "sed")
  /\ LET old == path_hash(worker[w].path)
         gone == SelectSeq(filelist, LAMBDA r : r.branch = old)
         rest == SelectSeq(filelist, LAMBDA r : r.branch # old)
         filesize == IF gone = <<>> THEN NONE ELSE gone[Len(gone)].size
     IN  SetWorker(w, [worker[w] EXCEPT !.pc = "sedmv", !.snap = rest,
                                          !.data = filesize])
  /\ UNCHANGED <<dir_structure, lru_file_cache, filesize_counter, datadir,
                 datadir_dirs, actions, handles, retrieve_queue, work_queue, opens,
                 branches, filelist, ret, boots, running, nops>>
  /\ UNCHANGED syncvars
  /\ UNCHANGED scratch

\* sed -i, second half: the temporary file is renamed over filelist.txt; then
\* the new record is appended
RenameSed(w) ==
  /\ At(w, "rename", "sedmv")
  /\ filelist' = Append(worker[w].snap, Record(worker[w].new, worker[w].data))
  /\ SetWorker(w, IdleTask)
  /\ UNCHANGED <<dir_structure, lru_file_cache, filesize_counter, datadir,
                 datadir_dirs, actions, handles, retrieve_queue, work_queue, opens,
                 branches, ret, boots, running, nops>>
  /\ UNCHANGED syncvars
  /\ UNCHANGED scratch

\* git fetch origin <branch>:<branch>: the clone gets the branch when the
\* remote has it
fetch(sc, b) ==
  IF b \in DOMAIN branches THEN [sc EXCEPT !.locals = @ \cup {b}] ELSE sc

\* git_retrieve_from_remote: pre_git_ops, fetch, checkout <branch> -- <file>,
\* then shutil.move(..., full_path) with full_path not defined in the
\* function: NameError, which the future hands to the waiting open()
Retrieve(w) ==
  /\ At(w, "retrieve", "start")
  /\ scratch' = [scratch EXCEPT ![pre_git_ops(w)] = fetch(@, path_hash(worker[w].path))]
  /\ SetWorker(w, IdleTask)
  /\ opens' = [o \in OpenIds |->
                 IF worker[w].waiter = <<"open", o>>
                 THEN [opens[o] EXCEPT !.pc = "raised"] ELSE opens[o]]
  /\ UNCHANGED <<dir_structure, lru_file_cache, filesize_counter, datadir,
                 datadir_dirs, actions, handles, retrieve_queue, work_queue,
                 branches, filelist, ret, boots, running, nops>>
  /\ UNCHANGED syncvars

----------------------------------------------------------------------------
(* The manifest synchronisation: sync_loop calls git_sync_filelist in      *)
(* pure/ every sync_freq minutes.  A manifest is the sequence of its       *)
(* records.  The specifications that synchronise only append records, so   *)
(* the remote commit a client last merged is a prefix of the client's      *)
(* manifest and of the remote's.                                           *)

\* the records m has gained since base
Added(m, base) == SubSeq(m, Len(base) + 1, Len(m))

\* git_sync_filelist, on a client whose manifest is fl and whose last merged
\* remote commit held base, against a remote that holds m.  The result is
\* the client's manifest and merged commit, the remote's manifest, and
\* whether the function raised.
\*   commit -a; pull origin master; [on "Merge conflict": sed, reload];
\*   commit -a; push -u origin master
\* merges: git pull merges histories that have diverged (pull.rebase=false,
\* or a git older than 2.27); a git that does not refuses the pull, and the
\* push is rejected.  Both sides appended after the same line, so a merge
\* is a conflict; sed deletes the marker lines, which leaves the client's
\* records followed by the remote's, and the reload names pure_dir, which is
\* not defined in the function: NameError.
git_sync_filelist(fl, base, m, merges) ==
  IF m = base
  THEN [filelist |-> fl, base |-> fl, master |-> fl, raised |-> FALSE]
  ELSE IF fl = base
  THEN [filelist |-> m, base |-> m, master |-> m, raised |-> FALSE]
  ELSE IF ~merges
  THEN [filelist |-> fl, base |-> base, master |-> m, raised |-> FALSE]
  ELSE [filelist |-> fl \o Added(m, base), base |-> base, master |-> m,
        raised |-> TRUE]

\* one round of sync_loop: an exception of git_sync_filelist ends the thread
Sync ==
  /\ running /\ sync_alive
  /\ \E merges \in BOOLEAN :
       LET r == git_sync_filelist(filelist, pure_base, master, merges)
       IN  /\ filelist' = r.filelist
           /\ pure_base' = r.base
           /\ master' = r.master
           /\ sync_alive' = ~r.raised
  /\ UNCHANGED <<dir_structure, lru_file_cache, filesize_counter, datadir,
                 datadir_dirs, actions, handles, retrieve_queue, work_queue,
                 worker, opens, branches, ret, boots, running, nops, peer,
                 scratch>>

\* the second client has committed a file of its own: its pool has appended
\* the record to its manifest
PeerCommit(p, size) ==
  /\ \A i \in 1..Len(peer.filelist) : peer.filelist[i].path # p
  /\ peer' = [peer EXCEPT !.filelist = Append(@, Record(p, size))]
  /\ UNCHANGED <<dir_structure, lru_file_cache, filesize_counter, datadir,
                 datadir_dirs, actions, handles, retrieve_queue, work_queue,
                 worker, opens, branches, filelist, ret, boots, running, nops,
                 master, pure_base, sync_alive, scratch>>

\* one round of the second client's sync_loop
PeerSync ==
  /\ peer.alive
  /\ \E merges \in BOOLEAN :
       LET r == git_sync_filelist(peer.filelist, peer.base, master, merges)
       IN  /\ peer' = [filelist |-> r.filelist, base |-> r.base, alive |-> ~r.raised]
           /\ master' = r.master
  /\ UNCHANGED <<dir_structure, lru_file_cache, filesize_counter, datadir,
                 datadir_dirs, actions, handles, retrieve_queue, work_queue,
                 worker, opens, branches, filelist, ret, boots, running, nops,
                 pure_base, sync_alive, scratch>>

----------------------------------------------------------------------------
(* Unmount and start again: main() loads the manifest into dir_structure   *)
(* and seeds the LRU from the files it finds under datadir/, and a new     *)
(* sync_loop thread starts.  main()'s pull of the default branch finds     *)
(* nothing new: no specification with a restart has a second client.       *)

\* the loop over filelist.txt: nested_set(dir_structure, all_paths, int(filesize));
\* int('') raises ValueError, a path below a leaf raises TypeError
RECURSIVE LoadManifest(_, _)
LoadManifest(st, recs) ==
  IF recs = <<>> \/ st.err # "" THEN st
  ELSE LET r == Head(recs)
       IN  IF r.size = NONE THEN [st EXCEPT !.err = "ValueError"]
           ELSE IF ~nested_set_ok(st.t, r.path) THEN [st EXCEPT !.err = "TypeError"]
           ELSE LoadManifest([st EXCEPT !.t = nested_set(st.t, r.path, r.size)], Tail(recs))

\* os.walk(data_dir) lists a directory's files before it descends: the files
\* at the top come first, then each directory's files together
WalkOrders(disk) ==
  {o \in Orders(DOMAIN disk) :
     \A i, j \in 1..Len(o) :
       i < j => /\ Len(o[i]) <= Len(o[j])
                /\ \A k \in i..j : Parent(o[i]) = Parent(o[j]) => Parent(o[k]) = Parent(o[i])}

\* the loop that populates lru_file_cache: orphans are skipped
RECURSIVE SeedLru(_, _)
SeedLru(st, order) ==
  IF order = <<>> \/ st.err # "" THEN st
  ELSE LET p == Head(order)
           filesize == getFromDict(st.t, p)
       IN  IF filesize = ERR THEN [st EXCEPT !.err = "AttributeError"]
           ELSE IF filesize = DIR THEN [st EXCEPT !.err = "TypeError"]
           ELSE IF filesize = NONE THEN SeedLru(st, Tail(order))
           ELSE LET c == LruSet(st.c, p, filesize)
                IN  SeedLru([st EXCEPT !.c = c, !.err = IF c.err THEN "FileNotFoundError" ELSE ""],
                            Tail(order))

Quiescent ==
  /\ work_queue = <<>>
  /\ \A w \in Workers : worker[w].kind = "idle"
  /\ \A o \in OpenIds : opens[o].pc = "idle"

Remount ==
  /\ running
  /\ boots < MaxBoots
  /\ Quiescent
  /\ handles = {}
  /\ \E order \in WalkOrders(datadir) :
       LET st0 == [t |-> Empty, err |-> "",
                   c |-> [l |-> <<>>, n |-> 0, disk |-> datadir, err |-> FALSE]]
           st1 == LoadManifest(st0, filelist)
           st2 == SeedLru(st1, order)
       IN  /\ dir_structure' = st2.t
           /\ SetCache(st2.c)
           /\ running' = (st2.err = "")
           /\ ret' = Ret("main", <<>>, IF st2.err = "" THEN "ok" ELSE st2.err)
  /\ boots' = boots + 1
  /\ actions' = Empty
  /\ retrieve_queue' = {}
  /\ UNCHANGED <<datadir_dirs, handles, work_queue, worker, opens, branches,
                 filelist, nops>>
  /\ sync_alive' = TRUE
  /\ UNCHANGED <<master, pure_base, peer, scratch>>

----------------------------------------------------------------------------
(* Specifications *)

\* the files at the top of the filesystem that the callbacks name
TopFiles == {<<"a">>, <<"b">>}
CacheFiles == {<<n>> : n \in FileNames}
\* the directories, and the files in them
TopDirs == {<<d>> : d \in DirNames}
DirFiles == {<<d, n>> : d \in DirNames, n \in {"a", "t~"}}

\* the pool's threads, by the function they run
CommitStep == \E w \in Workers : CommitCopy(w) \/ CommitPush(w) \/ CommitAppend(w)
RemoveStep == \E w \in Workers : RemovePush(w) \/ RemoveSedRead(w) \/ RemoveSed(w)
RenameStep ==
  \E w \in Workers : RenameStart(w) \/ RenamePush(w) \/ RenameSedRead(w) \/ RenameSed(w)
RetrieveStep == \E w \in Workers : Retrieve(w)
TakeStep == \E w \in Workers : Dequeue(w)

OpenStep ==
  \/ \E o \in OpenIds, p \in TopFiles : OpenStart(o, p)
  \/ \E o \in OpenIds : OpenWait(o) \/ OpenLookup(o) \/ OpenResult(o)

\* Spec: files at the top of the filesystem are created, written, read,
\* truncated, released, unlinked and opened while the pool commits, deletes
\* and retrieves
Next ==
  \/ \E p \in TopFiles, m \in Modes : Create(p, m)
  \/ \E p \in TopFiles, n \in 1..MaxFileSize : Write(p, n)
  \/ \E p \in TopFiles : Read(p)
  \/ \E p \in TopFiles, n \in 0..1 : Truncate(p, n)
  \/ \E p \in TopFiles : Release(p)
  \/ \E p \in TopFiles : Unlink(p)
  \/ OpenStep
  \/ TakeStep \/ CommitStep \/ RemoveStep \/ RetrieveStep

Spec == Init /\ [][Next]_vars

\* SpecRemount: in the first session files are created, written and released
\* and the pool commits them; the filesystem is unmounted and started again;
\* in the second session the files are opened, read and released
InitRemount == Started /\ nops = RemountOps

NextRemount ==
  \/ boots = 0 /\ \E p \in TopFiles : Create(p, RegularMode)
  \/ boots = 0 /\ \E p \in TopFiles, n \in 1..MaxFileSize : Write(p, n)
  \/ \E p \in TopFiles : Release(p)
  \/ TakeStep \/ CommitStep
  \/ Remount
  \/ boots > 0 /\ OpenStep
  \/ boots > 0 /\ \E p \in TopFiles : Read(p)
  \/ boots > 0 /\ RetrieveStep

SpecRemount == InitRemount /\ [][NextRemount]_vars

\* SpecRename: files are created, written, released and renamed, the pool
\* commits, deletes and renames branches, and the filesystem is started again
InitRename == Started /\ nops = RenameOps

NextRename ==
  \/ \E p \in TopFiles, m \in Modes : Create(p, m)
  \/ \E p \in TopFiles, n \in 1..MaxFileSize : Write(p, n)
  \/ \E p \in TopFiles : Release(p)
  \/ \E p, q \in TopFiles : Rename(p, q)
  \/ TakeStep \/ CommitStep \/ RemoveStep \/ RenameStep
  \/ Remount

SpecRename == InitRename /\ [][NextRename]_vars

\* SpecCache: three files are created, written and released; the pool's
\* threads, which never touch the LRU, have not run yet
InitCache == Started /\ nops = CacheOps

NextCache ==
  \/ \E p \in CacheFiles : Create(p, RegularMode)
  \/ \E p \in CacheFiles, n \in 1..MaxFileSize : Write(p, n)
  \/ \E p \in CacheFiles : Release(p)

SpecCache == InitCache /\ [][NextCache]_vars

\* SpecDirs: directories are made, removed and renamed, files (an editor's
\* backup file among them) are created in them, released and unlinked
InitDirs == Started /\ nops = DirOps

NextDirs ==
  \/ \E p \in TopDirs : Mkdir(p)
  \/ \E p \in TopDirs : Rmdir(p)
  \/ \E p \in DirFiles : Create(p, RegularMode)
  \/ \E p \in DirFiles : Release(p)
  \/ \E p \in DirFiles : Unlink(p)
  \/ \E p, q \in TopDirs : Rename(p, q)
  \/ TakeStep \/ CommitStep \/ RemoveStep \/ RenameStep

SpecDirs == InitDirs /\ [][NextDirs]_vars

\* SpecOnto: files are created, written, released, committed and unlinked;
\* when the pool has drained and every file is closed, a committed file is
\* renamed onto another committed file, and the pool runs the rename-branch
InitOnto == Started /\ nops = OntoOps

\* p is in the cache and the remote and the manifest hold what datadir/ holds
Committed(p) ==
  /\ p \in DOMAIN datadir
  /\ LruGet(lru_file_cache, p) = datadir[p]
  /\ path_hash(p) \in DOMAIN branches /\ branches[path_hash(p)] = datadir[p]
  /\ \E i \in 1..Len(filelist) : filelist[i] = Record(p, datadir[p])

NextOnto ==
  \/ \E p \in CacheFiles : Create(p, RegularMode)
  \/ \E p \in TopFiles, n \in 1..MaxFileSize : Write(p, n)
  \/ \E p \in CacheFiles : Release(p)
  \/ \E p \in CacheFiles \ TopFiles : Unlink(p)
  \/ /\ Quiescent /\ handles = {}
     /\ \E p, q \in TopFiles : Committed(p) /\ Committed(q) /\ Rename(p, q)
  \/ TakeStep \/ CommitStep \/ RemoveStep \/ RenameStep

SpecOnto == InitOnto /\ [][NextOnto]_vars


\* SpecEditor: a regular file and an editor's backup file are created, with
\* the mode of a regular or of a hidden file, written, released and unlinked
\* while the pool commits and deletes
EditorFiles == {<<"a">>, <<"t~">>}

InitEditor == Started /\ nops = EditorOps

NextEditor ==
  \/ \E p \in EditorFiles, m \in Modes : Create(p, m)
  \/ \E p \in EditorFiles, n \in 1..MaxFileSize : Write(p, n)
  \/ \E p \in EditorFiles : Release(p)
  \/ \E p \in EditorFiles : Unlink(p)
  \/ TakeStep \/ CommitStep \/ RemoveStep

SpecEditor == InitEditor /\ [][NextEditor]_vars

\* SpecRelease: files are created, written and released, opened again, read
\* and released, while the pool commits and retrieves
InitRelease == Started /\ nops = ReleaseOps

NextRelease ==
  \/ \E p \in TopFiles : Create(p, RegularMode)
  \/ \E p \in TopFiles, n \in 1..MaxFileSize : Write(p, n)
  \/ \E p \in TopFiles : Read(p)
  \/ \E p \in TopFiles : Release(p)
  \/ OpenStep
  \/ TakeStep \/ CommitStep \/ RetrieveStep

SpecRelease == InitRelease /\ [][NextRelease]_vars

\* SpecBoot: SpecDirs with a restart: directories are made, removed and
\* renamed, files are created in them, released and unlinked, the pool runs,
\* and the filesystem is unmounted and started again
InitBoot == Started /\ nops = BootOps

NextBoot == NextDirs \/ Remount

SpecBoot == InitBoot /\ [][NextBoot]_vars

\* SpecSync: this client creates, releases and commits files while a second
\* client commits a file of its own, and both synchronise their manifests
\* with the remote's default branch
PeerFiles == {<<"c">>}

InitSync == Started /\ nops = SyncOps

NextSync ==
  \/ \E p \in TopFiles : Create(p, RegularMode)
  \/ \E p \in TopFiles : Release(p)
  \/ TakeStep \/ CommitStep
  \/ Sync
  \/ \E p \in PeerFiles, n \in 1..MaxFileSize : PeerCommit(p, n)
  \/ PeerSync

SpecSync == InitSync /\ [][NextSync]_vars

\* SpecSyncFair: SpecSync in which the pool's threads go on running and both
\* sync loops, as long as their threads live, come round again (sync_loop is
\* "while True: sleep; git_sync_filelist")
SpecSyncFair ==
  /\ InitSync /\ [][NextSync]_vars
  /\ WF_vars(TakeStep) /\ WF_vars(CommitStep)
  /\ WF_vars(Sync) /\ WF_vars(PeerSync)

\* SpecPoolFair: files are created, released and renamed onto each other,
\* and every pool thread that can take or continue a task does so in the end
\* (the threads of a ThreadPoolExecutor run whenever they are not blocked)
InitPool == Started /\ nops = PoolOps

NextPool ==
  \/ \E p \in TopFiles : Create(p, RegularMode)
  \/ \E p \in TopFiles : Release(p)
  \/ \E p, q \in TopFiles : Rename(p, q)
  \/ TakeStep \/ CommitStep \/ RemoveStep \/ RenameStep

SpecPoolFair ==
  /\ InitPool /\ [][NextPool]_vars
  /\ WF_vars(TakeStep) /\ WF_vars(CommitStep)
  /\ WF_vars(RemoveStep) /\ WF_vars(RenameStep)

\* SpecLookup: files are created, written and released, looked up by
\* getattr and opened again, while the pool commits, and retrieves what the
\* cache lost
LookupOps == 6

InitLookup == Started /\ nops = LookupOps

NextLookup ==
  \/ \E p \in TopFiles : Create(p, RegularMode)
  \/ \E p \in TopFiles, n \in 1..MaxFileSize : Write(p, n)
  \/ \E p \in TopFiles : Release(p)
  \/ \E p \in TopFiles : Getattr(p)
  \/ OpenStep
  \/ TakeStep \/ CommitStep \/ RetrieveStep

SpecLookup == InitLookup /\ [][NextLookup]_vars

\* SpecTree: a directory is made, with or without a subdirectory; files are
\* created in both, written and released; the directory is renamed, and the
\* pool commits and renames branches
TreeOps == 6
TreeDirs == {<<"d">>, <<"d", "e">>}
TreeFiles == {<<"d", "a">>, <<"d", "e", "a">>}

InitTree == Started /\ nops = TreeOps

NextTree ==
  \/ \E p \in TreeDirs : Mkdir(p)
  \/ \E p \in TreeFiles : Create(p, RegularMode)
  \/ \E p \in TreeFiles : Write(p, 1)
  \/ \E p \in TreeFiles : Release(p)
  \/ \E p, q \in TopDirs : Rename(p, q)
  \/ TakeStep \/ CommitStep \/ RenameStep

SpecTree == InitTree /\ [][NextTree]_vars

\* SpecReaddir: directories are made, removed and listed, files (an editor's
\* backup file among them) are created in them and in their place, released
\* and unlinked, and the pool commits and deletes
ReaddirOps == 6
ListedDirs == TopDirs \cup {<<>>}

InitReaddir == Started /\ nops = ReaddirOps

NextReaddir ==
  \/ \E p \in TopDirs : Mkdir(p)
  \/ \E p \in TopDirs : Rmdir(p)
  \/ \E p \in DirFiles \cup TopDirs : Create(p, RegularMode)
  \/ \E p \in DirFiles \cup TopDirs : Release(p)
  \/ \E p \in DirFiles : Unlink(p)
  \/ \E p \in ListedDirs : Readdir(p)
  \/ TakeStep \/ CommitStep \/ RemoveStep

SpecReaddir == InitReaddir /\ [][NextReaddir]_vars

----------------------------------------------------------------------------
(* Properties *)

\* the manifest holds a record for p
HasRecord(p) == \E i \in 1..Len(filelist) : filelist[i].path = p

\* the number of retrievals of p that are queued or running
Retrievals(p) ==
  Cardinality({i \in 1..Len(work_queue) :
                 work_queue[i].kind = "retrieve" /\ work_queue[i].path = p})
  + Cardinality({w \in Workers : worker[w].kind = "retrieve" /\ worker[w].path = p})

RECURSIVE SumValues(_)
SumValues(l) == IF l = <<>> THEN 0 ELSE Head(l).v + SumValues(Tail(l))

\* C1: a file that fits in the cache and was created, written, released and
\* committed before the filesystem was unmounted and started again opens
\* afterwards, and the bytes it then holds are the bytes that were committed.
\* (SpecRemount)
C1_RoundTripAcrossRemount ==
  \A p \in TopFiles :
    (/\ boots > 0
     /\ ret.op = "open" /\ ret.path = p
     /\ HasRecord(p) /\ path_hash(p) \in DOMAIN branches
     /\ branches[path_hash(p)] \in 1..maxsize)
    => /\ ret.res = "ok"
       /\ p \in DOMAIN datadir
       /\ datadir[p] = branches[path_hash(p)]

\* C2: rename(p, q) of a tracked file p that was created and released, to a q
\* that does not exist, succeeds; afterwards q holds p's bytes and size in
\* the tree, the LRU and datadir/, and p is gone from them.  (SpecRename)
C2_RenameRoundTrip ==
  [][\A p, q \in TopFiles :
       (/\ Rename(p, q)
        /\ getFromDict(dir_structure, p) >= 0
        /\ LruGet(lru_file_cache, p) # NONE
        /\ p \in DOMAIN datadir /\ p \notin handles
        /\ getattr(q) = "none" /\ ~OnDisk(q))
       => /\ ret'.res = "ok"
          /\ getFromDict(dir_structure', q) = getFromDict(dir_structure, p)
          /\ LruGet(lru_file_cache', q) = LruGet(lru_file_cache, p)
          /\ q \in DOMAIN datadir' /\ datadir'[q] = datadir[p]
          /\ getFromDict(dir_structure', p) = NONE
          /\ LruGet(lru_file_cache', p) = NONE
          /\ p \notin DOMAIN datadir']_vars

\* C3: once the pool has drained, a path that was released and then unlinked
\* has neither a branch on the remote nor a record in the manifest, whatever
\* the order in which the workers ran the commit and the delete.  (Spec)
C3_UnlinkLeavesNothing ==
  \A p \in TopFiles :
    (/\ Quiescent
     /\ getFromDict(dir_structure, p) = NONE
     /\ LruGet(lru_file_cache, p) = NONE
     /\ p \notin DOMAIN datadir)
    => path_hash(p) \notin DOMAIN branches /\ ~HasRecord(p)

\* C4: the sizes of the LRU's entries sum to at most maxsize, unless the LRU
\* holds exactly one entry.  (SpecCache)
C4_CapacityInvariant ==
  Len(lru_file_cache) = 1 \/ SumValues(lru_file_cache) <= maxsize

\* C5: inserting a file larger than maxsize leaves that file as the LRU's
\* only entry.  (SpecCache)
C5_OversizedInsertAlone ==
  [][\A p \in CacheFiles :
       (/\ Release(p)
        /\ "write" \in ActionsOf(p)
        /\ p \in DOMAIN datadir /\ datadir[p] > maxsize)
       => LruKeys(lru_file_cache') = {p}]_vars

\* C6: every key of the LRU has a file under datadir/, and the size the LRU
\* records is that file's size.  (SpecDirs)
C6_LruMatchesDisk ==
  \A i \in 1..Len(lru_file_cache) :
    /\ lru_file_cache[i].k \in DOMAIN datadir
    /\ datadir[lru_file_cache[i].k] = lru_file_cache[i].v

\* C7: every leaf of the tree is a non-negative integer and every interior
\* node is a mapping.  (SpecDirs)
C7_TreeShape ==
  \A p \in DOMAIN dir_structure :
    /\ dir_structure[p] = DIR \/ dir_structure[p] >= 0
    /\ (\E q \in DOMAIN dir_structure : IsUnder(q, p)) => dir_structure[p] = DIR

\* C8: for a manifest the client itself produced by commits, renames and
\* deletes, the tree built at start has, for every record, a leaf at the
\* record's path with the record's size.  (SpecRename)
C8_BootstrapMatchesManifest ==
  ret.op = "main" =>
    /\ ret.res = "ok"
    /\ \A i \in 1..Len(filelist) :
         getFromDict(dir_structure, filelist[i].path) = filelist[i].size

\* C9: at most one retrieval of a path is in flight at any time.  (Spec)
C9_RetrievalCoalesced == \A p \in TopFiles : Retrievals(p) <= 1

\* C10: when a rename targets an existing file, the delete that was issued
\* and awaited before the rename's push is the delete of the destination.
\* (SpecRename)
C10_DestinationDeletedFirst ==
  \A w \in Workers :
    (worker[w].kind = "rename" /\ worker[w].dest /\ worker[w].pc \in {"push", "sed", "sedmv"})
    => worker[w].pre = worker[w].new

\* the records of the manifest whose path is p
RecordsOf(p) == {i \in 1..Len(filelist) : filelist[i].path = p}

\* C11: after rename(p, q) of a committed file p onto a committed file q,
\* once the pool has drained, the remote holds p's former bytes (now the
\* bytes of datadir/q) under q's branch and has no branch of p, and the
\* manifest holds one record for q, with p's size, and none for p.  (SpecOnto)
C11_RenameOntoExisting ==
  \A p, q \in TopFiles :
    (/\ ret.op = "rename" /\ ret.path = p /\ ret.res = "ok"
     /\ q # p /\ Quiescent /\ q \in DOMAIN datadir)
    => /\ path_hash(q) \in DOMAIN branches
       /\ branches[path_hash(q)] = datadir[q]
       /\ path_hash(p) \notin DOMAIN branches
       /\ Cardinality(RecordsOf(q)) = 1
       /\ \A i \in RecordsOf(q) : filelist[i].size = datadir[q]
       /\ RecordsOf(p) = {}

\* C12: create(p, mode) with the mode of a hidden file (0100600) or with a p
\* whose last character is '~' leaves the tree, the LRU and the pending
\* actions as they were and submits nothing to the pool.  (SpecEditor)
C12_EditorCreateFrame ==
  [][\A p \in EditorFiles, m \in Modes :
       (Create(p, m) /\ (m = EditorMode \/ p[Len(p)] = "t~"))
       => UNCHANGED <<dir_structure, lru_file_cache, filesize_counter, actions,
                      work_queue, worker>>]_vars

\* a hidden-mode create of a regular name returned while the tree held
\* another file and the pool had work
C12_Witness ==
  /\ ret.op = "create" /\ ret.res = "ok" /\ ret.path = <<"a">>
  /\ <<"a">> \in handles
  /\ getFromDict(dir_structure, <<"a">>) = NONE
  /\ getFromDict(dir_structure, <<"t~">>) >= 0
  /\ work_queue # <<>>

\* work_queue' is work_queue, or work_queue with one more task whose future
\* nobody awaits
SubmittedUnawaited ==
  \/ work_queue' = work_queue
  \/ /\ Len(work_queue') = Len(work_queue) + 1
     /\ SubSeq(work_queue', 1, Len(work_queue)) = work_queue
     /\ work_queue'[Len(work_queue')].waiter = <<>>

\* C13: unlink, create, write and release return without waiting for the
\* pool: whatever the workers are doing, the callback runs to its return with
\* no worker having moved, and a task it submitted is left queued with nobody
\* awaiting its future.  (SpecEditor)
C13_CallbacksDoNotAwait ==
  [][\A p \in EditorFiles :
       (\/ \E m \in Modes : Create(p, m)
        \/ \E n \in 1..MaxFileSize : Write(p, n)
        \/ Release(p)
        \/ Unlink(p))
       => /\ worker' = worker
          /\ SubmittedUnawaited
          /\ ret'.path = p]_vars

\* a release returned while every worker was busy, and its commit is queued
C13_Witness ==
  /\ ret.op = "release" /\ ret.res = "ok"
  /\ \A w \in Workers : worker[w].kind # "idle"
  /\ work_queue # <<>>
  /\ work_queue[Len(work_queue)].kind = "commit"
  /\ work_queue[Len(work_queue)].path = ret.path

C15_EvictionLeavesTree ==
  [][\A p \in CacheFiles :
       (Create(p, RegularMode) \/ Release(p))
       => \A e \in LruKeys(lru_file_cache) \ LruKeys(lru_file_cache') :
            /\ e \notin DOMAIN datadir'
            /\ getFromDict(dir_structure', e) = getFromDict(dir_structure, e)
            /\ getFromDict(dir_structure', e) = LruGet(lru_file_cache, e)]_vars

\* a released file of one or more bytes was evicted: the tree lists it, the
\* LRU and datadir/ do not hold it
C15_Witness ==
  \E e \in CacheFiles :
    /\ getFromDict(dir_structure, e) > 0
    /\ LruGet(lru_file_cache, e) = NONE
    /\ e \notin DOMAIN datadir

\* C16: right after a start, a file under datadir/ that has no record in the
\* manifest is not in the LRU and getattr of it answers not-found; and at any
\* time getattr of a path answers not-found exactly when the path is neither
\* a key of the LRU nor in the tree.  (SpecBoot)
C16_GetattrNotFound ==
  /\ (ret.op = "main" /\ ret.res = "ok") =>
       \A p \in DOMAIN datadir :
         ~HasRecord(p) => LruGet(lru_file_cache, p) = NONE /\ getattr(p) = "none"
  /\ \A p \in DirFiles \cup TopDirs :
       getattr(p) = "none" <=>
         /\ LruGet(lru_file_cache, p) = NONE
         /\ getFromDict(dir_structure, p) \in {NONE, ERR}

\* the manifest m holds a record for p
Holds(m, p) == \E i \in 1..Len(m) : m[i].path = p

\* C17: a round of the sync loop that meets a merge conflict on the manifest
\* (the client and the remote have both gained records, and the pull
\* merged) leaves the client's manifest holding every record of both sides,
\* the remote's default branch holding that manifest, and the sync loop
\* running.  (SpecSync)
C17_ConflictNotFatal ==
  [][(/\ Sync
      /\ master # pure_base /\ filelist # pure_base
      /\ filelist' # filelist)
     => /\ \A i \in 1..Len(filelist) : Holds(filelist', filelist[i].path)
        /\ \A i \in 1..Len(master) : Holds(filelist', master[i].path)
        /\ master' = filelist'
        /\ sync_alive']_vars

\* C18: once this client has committed x and the second client has committed
\* y, the rounds of the two sync loops lead to both manifests and the
\* remote's default branch holding a record for x and a record for y.
\* (SpecSyncFair)
C18_TwoClientsConverge ==
  \A x \in TopFiles, y \in PeerFiles :
    (Holds(filelist, x) /\ Holds(peer.filelist, y))
    ~> (/\ Holds(filelist, x) /\ Holds(filelist, y)
        /\ Holds(peer.filelist, x) /\ Holds(peer.filelist, y)
        /\ Holds(master, x) /\ Holds(master, y))

\* C19: every task submitted to the pool completes in the end: the
\* callbacks being finitely many, the time comes after which the queue is
\* empty and every worker idle, also when rename-branch tasks await their
\* nested delete in the same pool.  (SpecPoolFair)
C19_PoolDrains ==
  <>[](work_queue = <<>> /\ \A w \in Workers : worker[w].kind = "idle")

\* C20: the LRU's running total is the sum of the sizes it stores, after any
\* insertions, updates of a key, removals and evictions.  (SpecCache)
C20_RunningTotal == filesize_counter = SumValues(lru_file_cache)

\* C21: after getattr or open has looked a key of the LRU up and returned,
\* that key is the most recently used entry of the LRU (the last one), so
\* that an eviction takes the entries not looked up since.  (SpecLookup)
C21_LookupRecordsAccess ==
  (/\ ret.op \in {"getattr", "open"} /\ ret.res = "ok"
   /\ LruGet(lru_file_cache, ret.path) # NONE)
  => lru_file_cache[Len(lru_file_cache)].k = ret.path

\* C22: a path is in the retrieval-in-progress set only while an open() is
\* retrieving it: when open(p) has returned or failed and no other open of p
\* is in progress, p is not in the set; and an open of p polls the set only
\* while another open of p is at its retrieval.  (SpecLookup)
C22_RetrieveSetCleanup ==
  /\ \A p \in TopFiles :
       (/\ ret.op = "open" /\ ret.path = p
        /\ \A o \in OpenIds : opens[o].path # p)
       => p \notin retrieve_queue
  /\ \A o \in OpenIds :
       opens[o].pc = "wait" =>
         \E o2 \in OpenIds \ {o} :
           /\ opens[o2].path = opens[o].path
           /\ opens[o2].pc \in {"result", "returned", "raised"}

\* the rename-branch tasks of po to pn that a step has added to the queue
Dispatched(po, pn) ==
  {i \in (Len(work_queue) + 1)..Len(work_queue') :
     /\ work_queue'[i].kind = "rename"
     /\ work_queue'[i].path = po /\ work_queue'[i].new = pn}

\* C23: when rename(old, new) of a directory has returned, every file the
\* tree held under old is in the tree at the same place under new with the
\* same size, its LRU entry, if it had one, is under the new key, one
\* rename-branch of it was submitted, and the tree has nothing left at or
\* under old; whatever the directory holds, empty subdirectories
\* included.  (SpecTree)
C23_DirectoryRename ==
  [][\A old, new \in TopDirs :
       (/\ Rename(old, new)
        /\ getFromDict(dir_structure, old) = DIR
        /\ ret'.res = "ok")
       => /\ \A f \in {q \in DOMAIN dir_structure : IsUnder(q, old) /\ dir_structure[q] >= 0} :
               LET g == MoveUnder(f, old, new)
               IN  /\ getFromDict(dir_structure', g) = dir_structure[f]
                   /\ LruGet(lru_file_cache', g) = LruGet(lru_file_cache, f)
                   /\ LruGet(lru_file_cache', f) = NONE
                   /\ Cardinality(Dispatched(f, g)) = 1
          /\ \A q \in DOMAIN dir_structure' : q # old /\ ~IsUnder(q, old)]_vars

\* C24: readdir(path) fails with not-found when the tree has no node at
\* path or the node is a file; otherwise it succeeds and yields '.', '..' and
\* the names of the node's immediate children, no more and no less.
\* (SpecReaddir)
C24_Readdir ==
  ret.op = "readdir" =>
    LET v == getFromDict(dir_structure, ret.path)
    IN  IF v \in {NONE, ERR} \/ v >= 0
        THEN ret.res = "ENOENT"
        ELSE /\ ret.res = "ok"
             /\ ret.entries = {".", ".."} \cup Keys(dir_structure, ret.path)

\* C25: after a round of the sync loop whose pull brought records of the
\* remote into the manifest, by a fast-forward or by a merge with a conflict,
\* the tree has, for every record of the manifest, a leaf at the record's
\* path with the record's size.  (SpecSync)
C25_SyncReloadsTree ==
  [][(Sync /\ filelist' # filelist)
     => \A i \in 1..Len(filelist') :
          getFromDict(dir_structure', filelist'[i].path) = filelist'[i].size]_vars

\* C26: a commit leaves the scratch clone of the thread that ran it on the
\* default branch, whether its steps succeeded or failed: a pool thread that
\* is not in the middle of a git function, or is about to begin one, has its
\* scratch clone on master.  (Spec)
C26_ScratchOnDefaultBranch ==
  \A w \in Workers :
    worker[w].pc \in {"idle", "start"} => scratch[pre_git_ops(w)].head = MasterBranch

\* a pool thread is inside a git function: pre_git_ops has given it its
\* scratch directory
Executing(w) == worker[w].kind # "idle" /\ worker[w].pc # "start"

\* C27: no two git functions that run at the same time work in the same
\* scratch directory: a function works in the directory named after the
\* pool thread that runs it, and the delete a rename-branch awaits runs on
\* another thread than the rename-branch.  (SpecPoolFair)
C27_ScratchExclusive ==
  /\ \A w1, w2 \in Workers :
       (w1 # w2 /\ Executing(w1) /\ Executing(w2))
       => worker[w1].dirtydir # worker[w2].dirtydir
  /\ \A w \in Workers :
       Executing(w) => worker[w].dirtydir = <<"dirty", thread_name(w)>>
  /\ \A w, x \in Workers :
       (worker[w].pc = "wait" /\ worker[x].waiter = <<"worker", w>>) => x # w

\* a rename-branch waits for its delete, which another thread is running
C27_Witness ==
  \E w1, w2 \in Workers :
    /\ worker[w1].kind = "rename" /\ worker[w1].pc = "wait"
    /\ worker[w2].kind = "remove" /\ worker[w2].pc = "sed"
    /\ worker[w2].waiter = <<"worker", w1>>

\* C28: a truncate counts as a change of the file, as a write does: when the
\* handle of p is released and the last callback before was truncate(p, len),
\* so that no write came in between, the tree leaf and the LRU entry of p
\* become len, the size of the cache file, and a commit of p is submitted.
\* (Spec)
C28_TruncateIsMutation ==
  [][\A p \in TopFiles :
       (/\ Release(p)
        /\ ret.op = "truncate" /\ ret.path = p /\ ret.res = "ok")
       => /\ getFromDict(dir_structure', p) = datadir[p]
          /\ LruGet(lru_file_cache', p) = datadir[p]
          /\ \E i \in (Len(work_queue) + 1)..Len(work_queue') :
               work_queue'[i].kind = "commit" /\ work_queue'[i].path = p]_vars

\* C29: a file whose name ends in '~' stays untracked whatever is done with
\* it: created, written any number of times and released, it has no entry in
\* the tree or the LRU, and no commit of it is queued or running.
\* (SpecEditor)
C29_EditorFileUntracked ==
  \A p \in EditorFiles :
    EndsWithTilde(p) =>
      /\ getFromDict(dir_structure, p) = NONE
      /\ LruGet(lru_file_cache, p) = NONE
      /\ \A i \in 1..Len(work_queue) :
           ~(work_queue[i].kind = "commit" /\ work_queue[i].path = p)
      /\ \A w \in Workers : ~(worker[w].kind = "commit" /\ worker[w].path = p)

\* the content of p is not on the remote yet: p has a pending 'write', or a
\* commit of p is submitted and its copy has not run
Unsaved(p) ==
  \/ "write" \in ActionsOf(p)
  \/ \E i \in 1..Len(work_queue) : work_queue[i].kind = "commit" /\ work_queue[i].path = p
  \/ \E w \in Workers : At(w, "commit", "start") /\ worker[w].path = p

\* C30: the eviction that the insertion of another path sets off does not
\* delete the cache file of a path whose content is not on the remote yet.
\* (SpecRelease)
C30_EvictionSparesUnsaved ==
  [][\A q \in TopFiles : \A p \in TopFiles \ {q} :
       (/\ (Create(q, RegularMode) \/ Release(q))
        /\ Unsaved(p) /\ p \in DOMAIN datadir)
       => p \in DOMAIN datadir']_vars

\* C31: manifest edits made by different workers lose no record.  The step
\* that completes the manifest rewrite of a delete of q keeps every record of
\* another path that the manifest holds at that moment (the record a
\* concurrent commit of p appended among them) and leaves no record with q's
\* branch; the append of a commit of p leaves p's record in the manifest.
\* (Spec)
C31_ManifestEditsKeepRecords ==
  [][\A w \in Workers :
       /\ RemoveSed(w) =>
            /\ \A i \in 1..Len(filelist) :
                 filelist[i].branch # path_hash(worker[w].path)
                 => \E j \in 1..Len(filelist') : filelist'[j] = filelist[i]
            /\ \A j \in 1..Len(filelist') :
                 filelist'[j].branch # path_hash(worker[w].path)
       /\ (CommitAppend(w) /\ worker[w].path \in DOMAIN datadir) =>
            \E j \in 1..Len(filelist') :
              filelist'[j].branch = path_hash(worker[w].path)]_vars

====
